---- MODULE Spec2Model ----
(***************************************************************************)
(* Model of the shaman-bot process: the storage bootstrap (models.py,      *)
(* bot.main), the four command handlers of bot.py running as interleaved   *)
(* asyncio tasks, the two service clients of services.py and the           *)
(* user_messages table.                                                    *)
(*                                                                         *)
(* Texts are sequences of strings.  A typed character is a one-character   *)
(* string; a fixed phrase of the source (Cyrillic in the source) is one    *)
(* multi-character ASCII tag, so that every text has the same shape.       *)
(***************************************************************************)
EXTENDS Integers, Sequences, FiniteSets, TLC

VARIABLES
    boot,          \* position of the process: "import", "main", "polling", "failed"
    engine,        \* models.engine: TRUE once create_database_connection returned an engine
    schema,        \* TRUE once init_db has created the tables
    retries,       \* bot.main: local `retries`
    connLog,       \* outcome of every attempt of create_database_connection, in order
    initLog,       \* outcome of every init_db attempt of main, in order
    connSleeps,    \* durations of the time.sleep calls of create_database_connection
    mainSleeps,    \* durations of the time.sleep calls of main
    msgs,          \* inbound command messages dispatched so far: [cmd, text, user]
    pc,            \* position of the handler task of each message
    response,      \* handler local `response` of each message
    session,       \* get_pokemon_info local `session` of each message (0: none)
    answer,        \* what the backend answered to the message's request
    self_session,  \* pokeapi_service.session (0: None)
    nsessions,     \* number of aiohttp.ClientSession objects created so far
    closed,        \* the ClientSession objects whose `closed` is true
    table,         \* rows of user_messages, in insertion order
    replies,       \* texts sent by message.reply for each message, in order
    events,        \* what each handler has done so far, in order
    rows,          \* ids of the rows written by each handler
    conn_retries,  \* create_database_connection: the `retries` argument
    conn_delay     \* create_database_connection: the `delay` argument

vars == <<boot, engine, schema, retries, connLog, initLog, connSleeps, mainSleeps,
          msgs, pc, response, session, answer, self_session, nsessions, closed,
          table, replies, events, rows, conn_retries, conn_delay>>

bootVars == <<boot, engine, schema, retries, connLog, initLog, connSleeps, mainSleeps,
              conn_retries, conn_delay>>
pokeVars == <<session, self_session, nsessions, closed>>

(***************************************************************************)
(* Bounds                                                                  *)
(***************************************************************************)
\* number of command messages dispatched in one execution
MaxMsgs == 2
\* largest `retries` argument given to create_database_connection
MaxRetriesArg == 5

(***************************************************************************)
(* Program constants                                                       *)
(***************************************************************************)
ConnRetries == 5
ConnDelay == 5
MainRetries == 5
MainDelay == 5

GptToken == <<"/", "g", "p", "t">>
PokemonToken == <<"/", "p", "o", "k", "e", "m", "o", "n">>

WELCOME_TEXT == <<"[welcome_text]">>
HELP_TEXT == <<"[help_text]">>
GPT_PROMPTING == <<"[add a message after /gpt]">>
POKEMON_PROMPTING == <<"[give a pokemon name after /pokemon]">>
GPT_FALLBACK == <<"[sorry, an error occurred while processing your request]">>
POKE_APOLOGY == <<"[sorry, an error occurred while getting the pokemon info]">>
POKE_GENERIC_ERROR == <<"[an error occurred while getting the pokemon data]">>

NoText == <<"[None]">>

(***************************************************************************)
(* str methods used by the handlers and the clients                        *)
(***************************************************************************)
Whitespace == {" ", "\n", "\t"}

RECURSIVE LStrip(_)
LStrip(s) ==
    IF s # <<>> /\ Head(s) \in Whitespace THEN LStrip(Tail(s)) ELSE s

RECURSIVE RStrip(_)
RStrip(s) ==
    IF s # <<>> /\ s[Len(s)] \in Whitespace
    THEN RStrip(SubSeq(s, 1, Len(s) - 1))
    ELSE s

\* str.strip()
Strip(s) == RStrip(LStrip(s))

\* str.replace(old, ""): every non-overlapping occurrence, scanning from the left
RECURSIVE Replace(_, _)
Replace(s, old) ==
    IF Len(s) < Len(old) THEN s
    ELSE IF SubSeq(s, 1, Len(old)) = old
         THEN Replace(SubSeq(s, Len(old) + 1, Len(s)), old)
         ELSE <<Head(s)>> \o Replace(Tail(s), old)

LowerChar(c) ==
    CASE c = "P" -> "p"
      [] c = "I" -> "i"
      [] OTHER -> c

UpperChar(c) ==
    CASE c = "p" -> "P"
      [] c = "i" -> "I"
      [] OTHER -> c

\* str.lower()
Lower(s) == [i \in 1..Len(s) |-> LowerChar(s[i])]

\* str.capitalize()
Capitalize(s) == [i \in 1..Len(s) |-> IF i = 1 THEN UpperChar(s[i]) ELSE LowerChar(s[i])]

Digit(d) == <<"0", "1", "2", "3", "4", "5", "6", "7", "8", "9">>[d + 1]

\* str(n) of a non-negative int
RECURSIVE IntStr(_)
IntStr(n) == IF n < 10 THEN <<Digit(n)>> ELSE IntStr(n \div 10) \o <<Digit(n % 10)>>

\* str(n / 10) of a non-negative int: the float of n tenths
TenthsStr(n) == IntStr(n \div 10) \o <<".">> \o <<Digit(n % 10)>>

\* sep.join(items)
RECURSIVE Join(_, _)
Join(sep, items) ==
    IF items = <<>> THEN <<>>
    ELSE IF Len(items) = 1 THEN items[1]
    ELSE items[1] \o sep \o Join(sep, Tail(items))

(***************************************************************************)
(* Inputs: senders, argument texts, backend behaviours                     *)
(***************************************************************************)
Users == {101, 202}

\* what follows the command token in message.text: nothing, white space only,
\* a padded mixed-case word, the token again
Rests(token) ==
    { <<>>,
      <<" ", "\n">>,
      <<" ", "P", "i", " ">>,
      <<" ">> \o token }

\* content of the first choice of a completion the backend returned
Contents == { <<" ", "H", "i", "\n">> }

\* what the completion call does: a completion, or any exception
GptOutcomes == {[ok |-> TRUE, content |-> c] : c \in Contents}
                   \cup {[ok |-> FALSE, content |-> NoText]}

\* what the lookup backend does with a request: a status with a body that
\* is or is not the expected record, or a transport error
PokeAnswers == {"404", "500", "200", "200_malformed", "neterr"}

\* the JSON record of the backend for the requested (lower-cased) name
PokeData(key) ==
    [name |-> key, id |-> 25, height |-> 7, weight |-> 69,
     abilities |-> << <<"static">>, <<"lightning-rod">> >>,
     types |-> << <<"electric">>, <<"fairy">> >>]

(***************************************************************************)
(* services.py                                                             *)
(***************************************************************************)
\* ChatGPTService.get_response: the stripped content, or the fixed string
\* when anything raised
get_response(outcome) ==
    IF outcome.ok THEN Strip(outcome.content) ELSE GPT_FALLBACK

\* the key of the request URL
RequestKey(pokemon_name) == Lower(pokemon_name)

NotFoundText(pokemon_name) ==
    <<"[no pokemon named ">> \o pokemon_name \o <<" found.]">>

\* the summary built from the JSON record
FormatInfo(data) ==
    <<"[info about pokemon ">> \o Capitalize(data.name) \o <<"]:\n\n">>
    \o <<"[base stats]:\n">>
    \o <<"* ID: ">> \o IntStr(data.id) \o <<"\n">>
    \o <<"* [height]: ">> \o TenthsStr(data.height) \o <<" m\n">>
    \o <<"* [weight]: ">> \o TenthsStr(data.weight) \o <<" kg\n\n">>
    \o <<"[abilities]:\n">>
    \o <<"* ">> \o Join(<<"\n* ">>, data.abilities) \o <<"\n\n">>
    \o <<"[types]: ">> \o Join(<<", ">>, data.types)

\* the branch on the status naming the lower-cased name of the URL
StatusText_Lowered(pokemon_name, ans) ==
    CASE ans = "neterr" -> POKE_APOLOGY
      [] ans = "404" -> NotFoundText(Lower(pokemon_name))
      [] ans = "500" -> POKE_GENERIC_ERROR
      [] OTHER -> NoText

\* get_pokemon_info, the branch on response.status: the text returned, or
\* NoText when the coroutine goes on to read the body
StatusText(pokemon_name, ans) ==
    CASE ans = "neterr" -> POKE_APOLOGY
      [] ans = "404" -> NotFoundText(pokemon_name)
      [] ans = "500" -> POKE_GENERIC_ERROR
      [] OTHER -> NoText

\* get_pokemon_info, after response.json(): the summary, or the fixed string
\* when reading or formatting raised
BodyText(pokemon_name, ans) ==
    IF ans = "200" THEN FormatInfo(PokeData(RequestKey(pokemon_name)))
    ELSE POKE_APOLOGY

\* get_session creating a session on every call
SessionAfterGet_AlwaysNew == nsessions + 1

\* PokeAPIService.get_session: the session reference after the call and the
\* number of sessions created
SessionAfterGet == IF self_session = 0 \/ self_session \in closed
                   THEN nsessions + 1 ELSE self_session

\* get_pokemon_info without its finally block
ClosedAfterFinally_Skipped == closed

\* the finally block of get_pokemon_info: the closed sessions after it
ClosedAfterFinally ==
    IF self_session # 0 /\ self_session \notin closed
    THEN closed \cup {self_session} ELSE closed

(***************************************************************************)
(* bot.py: argument extraction and the storage write                       *)
(***************************************************************************)
Token(cmd) == IF cmd = "gpt" THEN GptToken ELSE PokemonToken

\* the extraction without the trim
ExtractArg_NoStrip(text, token) == Replace(text, token)

\* message.text.replace(token, "").strip()
ExtractArg(text, token) == Strip(Replace(text, token))

user_text(m) == ExtractArg(msgs[m].text, Token(msgs[m].cmd))

\* the source tag taken from the command name
ApiSource_Command(cmd) == cmd

ApiSource(cmd) == IF cmd = "gpt" THEN "chatgpt" ELSE "pokeapi"

\* UserMessage(...) as inserted by db.add and db.commit
NewRow(m, resp) ==
    [id |-> Len(table) + 1,
     user_id |-> msgs[m].user,
     user_message |-> user_text(m),
     bot_response |-> resp,
     api_source |-> ApiSource(msgs[m].cmd)]

\* the message loop is running and delivers another message
Polling == boot = "polling" /\ Len(msgs) < MaxMsgs

\* a new handler task for an inbound message
Dispatch(cmd, text, u, p, evs, reps) ==
    /\ msgs' = Append(msgs, [cmd |-> cmd, text |-> text, user |-> u])
    /\ pc' = Append(pc, p)
    /\ events' = Append(events, evs)
    /\ replies' = Append(replies, reps)
    /\ response' = Append(response, NoText)
    /\ answer' = Append(answer, "none")
    /\ rows' = Append(rows, <<>>)

\* get_db, db.add, db.commit, then message.reply(response); a failing
\* storage call raises out of the handler
StoreAndReply(m, resp, dbok, evs) ==
    IF dbok
    THEN /\ table' = Append(table, NewRow(m, resp))
         /\ rows' = [rows EXCEPT ![m] = Append(@, Len(table) + 1)]
         /\ replies' = [replies EXCEPT ![m] = Append(@, resp)]
         /\ events' = [events EXCEPT ![m] = @ \o evs \o <<"commit", "reply">>]
         /\ pc' = [pc EXCEPT ![m] = "done"]
    ELSE /\ events' = [events EXCEPT ![m] = @ \o evs \o <<"raise">>]
         /\ pc' = [pc EXCEPT ![m] = "raised"]
         /\ UNCHANGED <<table, rows, replies>>

(***************************************************************************)
(* Initial state: the interpreter is about to import models.py             *)
(***************************************************************************)
Init ==
    /\ boot = "import"
    /\ engine = FALSE
    /\ schema = FALSE
    /\ retries = MainRetries
    /\ connLog = <<>>
    /\ initLog = <<>>
    /\ connSleeps = <<>>
    /\ mainSleeps = <<>>
    /\ msgs = <<>>
    /\ pc = <<>>
    /\ response = <<>>
    /\ session = <<>>
    /\ answer = <<>>
    /\ self_session = 0
    /\ nsessions = 0
    /\ closed = {}
    /\ table = <<>>
    /\ replies = <<>>
    /\ events = <<>>
    /\ rows = <<>>
    /\ conn_retries = ConnRetries
    /\ conn_delay = ConnDelay

handlerVars == <<msgs, pc, response, answer, table, replies, events, rows>>

(***************************************************************************)
(* models.py: engine = create_database_connection(), run at import         *)
(***************************************************************************)
\* an attempt whose engine.connect() succeeds: the engine is returned
ConnectOk ==
    /\ boot = "import"
    /\ Len(connLog) < conn_retries
    /\ connLog' = Append(connLog, "ok")
    /\ engine' = TRUE
    /\ boot' = "main"
    /\ UNCHANGED <<schema, retries, initLog, connSleeps, mainSleeps>>
    /\ UNCHANGED <<handlerVars, pokeVars, conn_retries, conn_delay>>

\* the loop with one attempt more than `retries`
ConnectFail_ExtraAttempt ==
    /\ boot = "import"
    /\ Len(connLog) < conn_retries + 1
    /\ connLog' = Append(connLog, "fail")
    /\ IF Len(connLog) = conn_retries
       THEN boot' = "failed" /\ UNCHANGED connSleeps
       ELSE connSleeps' = Append(connSleeps, conn_delay) /\ UNCHANGED boot
    /\ UNCHANGED <<engine, schema, retries, initLog, mainSleeps>>
    /\ UNCHANGED <<handlerVars, pokeVars, conn_retries, conn_delay>>

\* an attempt that raises: re-raised on the last attempt, else sleep(delay)
ConnectFail ==
    /\ boot = "import"
    /\ Len(connLog) < conn_retries
    /\ connLog' = Append(connLog, "fail")
    /\ IF Len(connLog) = conn_retries - 1
       THEN boot' = "failed" /\ UNCHANGED connSleeps
       ELSE connSleeps' = Append(connSleeps, conn_delay) /\ UNCHANGED boot
    /\ UNCHANGED <<engine, schema, retries, initLog, mainSleeps>>
    /\ UNCHANGED <<handlerVars, pokeVars, conn_retries, conn_delay>>

\* range(retries) is exhausted without a return or a raise: the function
\* falls off its end and returns None, which models.py:72 would bind to
\* `engine`
ConnectNone ==
    /\ boot = "import"
    /\ Len(connLog) >= conn_retries
    /\ boot' = "returned_none"
    /\ UNCHANGED <<engine, schema, retries, connLog, initLog, connSleeps, mainSleeps>>
    /\ UNCHANGED <<handlerVars, pokeVars, conn_retries, conn_delay>>

(***************************************************************************)
(* bot.main: the retry loop around init_db, then dp.start_polling          *)
(***************************************************************************)
\* init_db() returns: break, and the message loop is started
InitDbOk ==
    /\ boot = "main"
    /\ retries > 0
    /\ initLog' = Append(initLog, "ok")
    /\ schema' = TRUE
    /\ boot' = "polling"
    /\ UNCHANGED <<engine, retries, connLog, connSleeps, mainSleeps>>
    /\ UNCHANGED <<handlerVars, pokeVars, conn_retries, conn_delay>>

\* the loop without its raise: when no attempt is left it is left, and
\* the message loop is started
InitDbFail_NoRaise ==
    /\ boot = "main"
    /\ retries > 0
    /\ initLog' = Append(initLog, "fail")
    /\ retries' = retries - 1
    /\ IF retries' = 0
       THEN boot' = "polling" /\ UNCHANGED mainSleeps
       ELSE mainSleeps' = Append(mainSleeps, MainDelay) /\ UNCHANGED boot
    /\ UNCHANGED <<engine, schema, connLog, connSleeps>>
    /\ UNCHANGED <<handlerVars, pokeVars, conn_retries, conn_delay>>

\* the loop sleeping before it looks at the attempts left
InitDbFail_SleepFirst ==
    /\ boot = "main"
    /\ retries > 0
    /\ initLog' = Append(initLog, "fail")
    /\ retries' = retries - 1
    /\ mainSleeps' = Append(mainSleeps, MainDelay)
    /\ IF retries' = 0 THEN boot' = "failed" ELSE UNCHANGED boot
    /\ UNCHANGED <<engine, schema, connLog, connSleeps>>
    /\ UNCHANGED <<handlerVars, pokeVars, conn_retries, conn_delay>>

\* init_db() raises: one attempt less; raise when none is left, else sleep
InitDbFail ==
    /\ boot = "main"
    /\ retries > 0
    /\ initLog' = Append(initLog, "fail")
    /\ retries' = retries - 1
    /\ IF retries' = 0
       THEN boot' = "failed" /\ UNCHANGED mainSleeps
       ELSE mainSleeps' = Append(mainSleeps, MainDelay) /\ UNCHANGED boot
    /\ UNCHANGED <<engine, schema, connLog, connSleeps>>
    /\ UNCHANGED <<handlerVars, pokeVars, conn_retries, conn_delay>>

(***************************************************************************)
(* bot.py: the handlers.  Each action is one run of a handler task from    *)
(* one suspension point to the next.                                       *)
(***************************************************************************)
\* a /start handler that records the exchange like the query handlers
send_welcome_Recorded ==
    /\ Polling
    /\ \E u \in Users :
        /\ Dispatch("start", <<"/", "s", "t", "a", "r", "t">>, u,
                    "done", <<"reply">>, <<WELCOME_TEXT>>)
        /\ table' = Append(table, [id |-> Len(table) + 1, user_id |-> u,
                                   user_message |-> <<"/", "s", "t", "a", "r", "t">>,
                                   bot_response |-> WELCOME_TEXT,
                                   api_source |-> "chatgpt"])
        /\ session' = Append(session, 0)
        /\ UNCHANGED <<self_session, nsessions, closed, bootVars>>

send_welcome ==
    /\ Polling
    /\ \E u \in Users :
        /\ Dispatch("start", <<"/", "s", "t", "a", "r", "t">>, u,
                    "done", <<"reply">>, <<WELCOME_TEXT>>)
        /\ session' = Append(session, 0)
        /\ UNCHANGED <<table, self_session, nsessions, closed, bootVars>>

send_help ==
    /\ Polling
    /\ \E u \in Users :
        /\ Dispatch("help", <<"/", "h", "e", "l", "p">>, u,
                    "done", <<"reply">>, <<HELP_TEXT>>)
        /\ session' = Append(session, 0)
        /\ UNCHANGED <<table, self_session, nsessions, closed, bootVars>>

\* handle_gpt up to its first await: the prompting reply, or the call of
\* chatgpt_service.get_response
handle_gpt_from(rests) ==
    /\ Polling
    /\ \E u \in Users, rest \in rests :
        LET text == GptToken \o rest IN
        /\ IF ExtractArg(text, GptToken) = <<>>
           THEN Dispatch("gpt", text, u, "done", <<"reply">>, <<GPT_PROMPTING>>)
           ELSE Dispatch("gpt", text, u, "gpt_call", <<"call">>, <<>>)
        /\ session' = Append(session, 0)
        /\ UNCHANGED <<table, self_session, nsessions, closed, bootVars>>

handle_gpt == handle_gpt_from(Rests(GptToken))

\* the completion call ends; get_response returns, and handle_gpt runs on
\* through the storage write to message.reply
handle_gpt_resume(m) ==
    /\ pc[m] = "gpt_call"
    /\ \E outcome \in GptOutcomes, dbok \in BOOLEAN :
        /\ answer' = [answer EXCEPT ![m] = IF outcome.ok THEN "ok" ELSE "error"]
        /\ response' = [response EXCEPT ![m] = get_response(outcome)]
        /\ StoreAndReply(m, get_response(outcome), dbok,
                         <<IF outcome.ok THEN "completion" ELSE "exc", "return">>)
    /\ UNCHANGED <<msgs, pokeVars, bootVars>>

\* handle_pokemon up to its first await: the prompting reply, or
\* get_pokemon_info up to the request session.get(url)
handle_pokemon_from(rests) ==
    /\ Polling
    /\ \E u \in Users, rest \in rests :
        LET text == PokemonToken \o rest IN
        IF ExtractArg(text, PokemonToken) = <<>>
        THEN /\ Dispatch("pokemon", text, u, "done", <<"reply">>, <<POKEMON_PROMPTING>>)
             /\ session' = Append(session, 0)
             /\ UNCHANGED <<table, self_session, nsessions, closed, bootVars>>
        ELSE /\ Dispatch("pokemon", text, u, "poke_get", <<"call">>, <<>>)
             /\ self_session' = SessionAfterGet
             /\ nsessions' = IF SessionAfterGet = self_session THEN nsessions
                             ELSE nsessions + 1
             /\ session' = Append(session, SessionAfterGet)
             /\ UNCHANGED <<table, closed, bootVars>>

handle_pokemon == handle_pokemon_from(Rests(PokemonToken))

\* get_pokemon_info returns `text`: the finally block runs
PokeReturn(m, seen, text) ==
    /\ response' = [response EXCEPT ![m] = text]
    /\ closed' = ClosedAfterFinally
    /\ events' = [events EXCEPT ![m] = @ \o <<seen, "return">>]
    /\ pc' = [pc EXCEPT ![m] = "poke_store"]

\* the request ends: an exception when the session was closed under it,
\* else the branch on the status
get_pokemon_info_status(m) ==
    /\ pc[m] = "poke_get"
    /\ \E ans \in PokeAnswers :
        /\ answer' = [answer EXCEPT ![m] = ans]
        /\ IF session[m] \in closed
           THEN PokeReturn(m, "exc", POKE_APOLOGY)
           ELSE IF StatusText(user_text(m), ans) # NoText
           THEN PokeReturn(m, IF ans = "neterr" THEN "exc" ELSE "status_" \o ans,
                           StatusText(user_text(m), ans))
           ELSE /\ pc' = [pc EXCEPT ![m] = "poke_json"]
                /\ events' = [events EXCEPT ![m] = Append(@, "status_200")]
                /\ UNCHANGED <<response, closed>>
    /\ UNCHANGED <<msgs, table, replies, rows, session, self_session, nsessions, bootVars>>

\* response.json() ends: an exception when the session was closed before
\* the body had arrived, else the summary or the exception of a bad body
get_pokemon_info_json(m) ==
    /\ pc[m] = "poke_json"
    /\ \E arrived \in BOOLEAN :
        /\ session[m] \notin closed => arrived
        /\ PokeReturn(m, IF arrived /\ answer[m] = "200" THEN "body" ELSE "exc",
                       IF arrived THEN BodyText(user_text(m), answer[m])
                       ELSE POKE_APOLOGY)
    /\ UNCHANGED <<msgs, answer, table, replies, rows, session, self_session, nsessions,
                   bootVars>>

\* handle_pokemon after get_pokemon_info: the storage write and the reply
handle_pokemon_resume(m) ==
    /\ pc[m] = "poke_store"
    /\ \E dbok \in BOOLEAN : StoreAndReply(m, response[m], dbok, <<>>)
    /\ UNCHANGED <<msgs, response, answer, pokeVars, bootVars>>

Next ==
    \/ ConnectOk
    \/ ConnectFail
    \/ InitDbOk
    \/ InitDbFail
    \/ send_welcome
    \/ send_help
    \/ handle_gpt
    \/ handle_pokemon
    \/ \E m \in 1..Len(msgs) : handle_gpt_resume(m)
    \/ \E m \in 1..Len(msgs) : get_pokemon_info_status(m)
    \/ \E m \in 1..Len(msgs) : get_pokemon_info_json(m)
    \/ \E m \in 1..Len(msgs) : handle_pokemon_resume(m)

Spec == Init /\ [][Next]_vars

(***************************************************************************)
(* The message loop alone: the state in which dp.start_polling is called   *)
(* when both the connection and init_db succeeded at the first attempt,    *)
(* and the handler tasks from there on.  No handler reads the bootstrap    *)
(* state.                                                                  *)
(***************************************************************************)
InitPolling ==
    /\ boot = "polling"
    /\ engine = TRUE
    /\ schema = TRUE
    /\ retries = MainRetries
    /\ connLog = <<"ok">>
    /\ initLog = <<"ok">>
    /\ connSleeps = <<>>
    /\ mainSleeps = <<>>
    /\ msgs = <<>>
    /\ pc = <<>>
    /\ response = <<>>
    /\ session = <<>>
    /\ answer = <<>>
    /\ self_session = 0
    /\ nsessions = 0
    /\ closed = {}
    /\ table = <<>>
    /\ replies = <<>>
    /\ events = <<>>
    /\ rows = <<>>
    /\ conn_retries = ConnRetries
    /\ conn_delay = ConnDelay

NextPolling ==
    \/ send_welcome
    \/ send_help
    \/ handle_gpt
    \/ handle_pokemon
    \/ \E m \in 1..Len(msgs) : handle_gpt_resume(m)
    \/ \E m \in 1..Len(msgs) : get_pokemon_info_status(m)
    \/ \E m \in 1..Len(msgs) : get_pokemon_info_json(m)
    \/ \E m \in 1..Len(msgs) : handle_pokemon_resume(m)

SpecPolling == InitPolling /\ [][NextPolling]_vars

(***************************************************************************)
(* The bootstrap alone: the process from its start to the message loop,    *)
(* which here answers the static commands only.  No bootstrap step reads   *)
(* or writes the state of a handler.                                       *)
(***************************************************************************)
NextBoot ==
    \/ ConnectOk
    \/ ConnectFail
    \/ InitDbOk
    \/ InitDbFail
    \/ send_welcome
    \/ send_help

SpecBoot == Init /\ [][NextBoot]_vars

(***************************************************************************)
(* The query handlers on texts that carry the command token a second time, *)
(* after an argument: the message loop with /gpt and /pokemon messages     *)
(* only.                                                                   *)
(***************************************************************************)
RepeatedRests(token) ==
    { <<" ", "\n">>,
      <<" ", "P", "i", " ">>,
      <<" ", "P", "i", " ">> \o token }

NextQueries ==
    \/ handle_gpt_from(RepeatedRests(GptToken))
    \/ handle_pokemon_from(RepeatedRests(PokemonToken))
    \/ \E m \in 1..Len(msgs) : handle_gpt_resume(m)
    \/ \E m \in 1..Len(msgs) : get_pokemon_info_status(m)
    \/ \E m \in 1..Len(msgs) : get_pokemon_info_json(m)
    \/ \E m \in 1..Len(msgs) : handle_pokemon_resume(m)

SpecQueries == InitPolling /\ [][NextQueries]_vars

(***************************************************************************)
(* create_database_connection(retries, delay) alone, for every argument    *)
(* in the bounds: the call to its return or raise.                         *)
(***************************************************************************)
Delays == {0, 1, 2, 5}

InitConn ==
    /\ boot = "import"
    /\ engine = FALSE
    /\ schema = FALSE
    /\ retries = MainRetries
    /\ connLog = <<>>
    /\ initLog = <<>>
    /\ connSleeps = <<>>
    /\ mainSleeps = <<>>
    /\ msgs = <<>>
    /\ pc = <<>>
    /\ response = <<>>
    /\ session = <<>>
    /\ answer = <<>>
    /\ self_session = 0
    /\ nsessions = 0
    /\ closed = {}
    /\ table = <<>>
    /\ replies = <<>>
    /\ events = <<>>
    /\ rows = <<>>
    /\ conn_retries \in 0..MaxRetriesArg
    /\ conn_delay \in Delays

\* the function's return or raise ends the behaviour: nothing of bot.main runs
NextConn ==
    \/ ConnectOk
    \/ ConnectFail
    \/ ConnectNone

SpecConn == InitConn /\ [][NextConn]_vars

(***************************************************************************)
(* Type invariant                                                          *)
(***************************************************************************)
TypeOK ==
    /\ boot \in {"import", "main", "polling", "failed", "returned_none"}
    /\ conn_retries \in 0..MaxRetriesArg /\ conn_delay \in Delays
    /\ engine \in BOOLEAN /\ schema \in BOOLEAN
    /\ retries \in 0..MainRetries
    /\ Len(msgs) <= MaxMsgs
    /\ \A m \in 1..Len(msgs) :
        /\ pc[m] \in {"gpt_call", "poke_get", "poke_json", "poke_store", "done", "raised"}
        /\ session[m] \in 0..nsessions
    /\ self_session \in 0..nsessions
    /\ closed \subseteq 1..nsessions

(***************************************************************************)
(* Vocabulary of the properties                                            *)
(***************************************************************************)
Handlers == 1..Len(msgs)

\* the handler task has ended: it returned, or an exception left it
Returned(m) == pc[m] = "done"
Raised(m) == pc[m] = "raised"
Ended(m) == Returned(m) \/ Raised(m)

IsQuery(m) == msgs[m].cmd \in {"gpt", "pokemon"}

\* the argument of a command message: the text after the leading command
\* token, trimmed at both ends
Argument(m) ==
    Strip(SubSeq(msgs[m].text, Len(Token(msgs[m].cmd)) + 1, Len(msgs[m].text)))

Has(m, e) == \E i \in 1..Len(events[m]) : events[m][i] = e
Count(m, e) == Cardinality({i \in 1..Len(events[m]) : events[m][i] = e})

\* e occurs in the history of m, and d occurs before its first occurrence
Precedes(m, d, e) ==
    \E j \in 1..Len(events[m]) :
        /\ events[m][j] = e
        /\ \A k \in 1..(j - 1) : events[m][k] # e
        /\ \E i \in 1..(j - 1) : events[m][i] = d

Prompting(cmd) == IF cmd = "gpt" THEN GPT_PROMPTING ELSE POKEMON_PROMPTING

\* the external call of m ended in a failure: an exception, or an error status
CallFailed(m) == Has(m, "exc") \/ Has(m, "status_500")

\* the fixed string the owning client returns for the failure of m
Fallback(m) ==
    IF msgs[m].cmd = "gpt" THEN GPT_FALLBACK
    ELSE IF Has(m, "exc") THEN POKE_APOLOGY ELSE POKE_GENERIC_ERROR

(***************************************************************************)
(* C1: every command message receives exactly one reply: a handler never   *)
(* sends a second reply, and a handler that has ended, whatever the        *)
(* backends and the storage write did, has sent one.                       *)
(***************************************************************************)
C1_ExactlyOneReply ==
    \A m \in Handlers :
        /\ Len(replies[m]) <= 1
        /\ Ended(m) => Len(replies[m]) = 1

(***************************************************************************)
(* C2: for a /gpt or /pokemon command with a non-empty argument the        *)
(* external call returns, then the record is committed, then the reply is  *)
(* sent: no reply without an earlier commit, no commit without an earlier  *)
(* return of the call, and a handler that has ended went through all three.*)
(***************************************************************************)
C2_CallCommitReplyOrder ==
    \A m \in Handlers :
        (IsQuery(m) /\ Argument(m) # <<>>) =>
            /\ Has(m, "reply") => Precedes(m, "commit", "reply")
            /\ Has(m, "commit") => Precedes(m, "return", "commit")
            /\ Ended(m) => Has(m, "reply")

(***************************************************************************)
(* C4: for a /gpt message with a non-empty argument the handler persists   *)
(* exactly one record, with the completion tag, the trimmed argument, the  *)
(* sender's id and the value the client returned, and the reply sent is    *)
(* that same value.                                                        *)
(***************************************************************************)
C4_GptRecordAndReply ==
    \A m \in Handlers :
        (msgs[m].cmd = "gpt" /\ Argument(m) # <<>> /\ Ended(m)) =>
            /\ Len(rows[m]) = 1
            /\ table[rows[m][1]].api_source = "chatgpt"
            /\ table[rows[m][1]].user_message = Argument(m)
            /\ table[rows[m][1]].user_id = msgs[m].user
            /\ table[rows[m][1]].bot_response = response[m]
            /\ replies[m] = <<response[m]>>

(***************************************************************************)
(* C5: when the external call of a command fails, the client returns its   *)
(* fixed string, and the handler persists one record with that string and  *)
(* replies with it; the call is made once.                                 *)
(***************************************************************************)
C5_FailedCallStillStoredAndReplied ==
    \A m \in Handlers :
        (IsQuery(m) /\ CallFailed(m) /\ Ended(m)) =>
            /\ response[m] = Fallback(m)
            /\ Count(m, "call") = 1
            /\ Len(rows[m]) = 1
            /\ table[rows[m][1]].bot_response = Fallback(m)
            /\ replies[m] = <<Fallback(m)>>

(***************************************************************************)
(* C6: no handler task ends with a raised failure.                         *)
(***************************************************************************)
C6_NoHandlerRaises ==
    \A m \in Handlers : ~Raised(m)

(***************************************************************************)
(* C3: a /gpt or /pokemon message whose argument is empty or white space   *)
(* only makes no call to a client (and opens no lookup session), persists  *)
(* no record - every row of the table comes from a message with a          *)
(* non-empty argument - and is answered with the prompting string of its   *)
(* command.                                                                *)
(***************************************************************************)
C3_EmptyArgumentPrompts ==
    /\ \A m \in Handlers :
        (IsQuery(m) /\ Argument(m) = <<>>) =>
            /\ ~Has(m, "call")
            /\ answer[m] = "none"
            /\ session[m] = 0
            /\ rows[m] = <<>>
            /\ replies[m] = <<Prompting(msgs[m].cmd)>>
            /\ Returned(m)
    /\ \A i \in 1..Len(table) :
        \E m \in Handlers :
            /\ Argument(m) # <<>>
            /\ \E k \in 1..Len(rows[m]) : rows[m][k] = i

\* a white-space-only /pokemon argument was answered while the table holds
\* the record of another command
C3_Witness ==
    \E m \in Handlers :
        /\ msgs[m].cmd = "pokemon"
        /\ msgs[m].text = PokemonToken \o <<" ", "\n">>
        /\ replies[m] = <<POKEMON_PROMPTING>>
        /\ Len(table) = 1

(***************************************************************************)
(* C7: the message loop runs only when the connection was opened and       *)
(* init_db succeeded; when every attempt of a retry budget failed the      *)
(* bootstrap has failed, no message was ever handled, and the failed       *)
(* bootstrap never goes on to start the message loop.                      *)
(***************************************************************************)
AllFailed(log) == \A i \in 1..Len(log) : log[i] = "fail"

C7_State ==
    /\ (boot = "polling" \/ msgs # <<>>) =>
        /\ engine /\ schema
        /\ connLog # <<>> /\ connLog[Len(connLog)] = "ok"
        /\ initLog # <<>> /\ initLog[Len(initLog)] = "ok"
    /\ (Len(connLog) = ConnRetries /\ AllFailed(connLog)) => boot = "failed"
    /\ (Len(initLog) = MainRetries /\ AllFailed(initLog)) => boot = "failed"
    /\ boot = "failed" =>
        /\ msgs = <<>> /\ ~schema
        /\ \/ Len(connLog) = ConnRetries /\ AllFailed(connLog) /\ ~engine
           \/ Len(initLog) = MainRetries /\ AllFailed(initLog)

C7_PollingOnlyAfterStorageReady ==
    []C7_State /\ [][boot = "failed" => boot' = "failed"]_vars

\* the message loop handling a message after init_db failed twice, then succeeded
C7_Witness ==
    /\ boot = "polling"
    /\ initLog = <<"fail", "fail", "ok">>
    /\ msgs # <<>>

(***************************************************************************)
(* C8: the retry loop of main: attempts are made one after the other up to *)
(* the first success, at most 5; a delay of 5 follows every failed attempt *)
(* but the fifth: 5 attempts and 4 delays when all fail, k attempts and    *)
(* k - 1 delays when the k-th is the first success, and then the message   *)
(* loop is started.                                                        *)
(***************************************************************************)
C8_MainRetryLoop ==
    LET n == Len(initLog) IN
    /\ n <= 5
    /\ \A i \in 1..(n - 1) : initLog[i] = "fail"
    /\ \A i \in 1..Len(mainSleeps) : mainSleeps[i] = 5
    /\ boot = "import" => n = 0
    /\ boot = "main" => AllFailed(initLog) /\ n < 5 /\ Len(mainSleeps) = n
    /\ boot = "polling" => initLog[n] = "ok" /\ Len(mainSleeps) = n - 1
    /\ (boot = "failed" /\ engine) =>
        AllFailed(initLog) /\ n = 5 /\ Len(mainSleeps) = 4
    /\ (boot = "failed" /\ ~engine) => n = 0 /\ mainSleeps = <<>>

\* success on the third attempt: two delays, and the message loop runs
C8_Witness ==
    /\ boot = "polling"
    /\ Len(initLog) = 3
    /\ mainSleeps = <<5, 5>>

C10_ResultFromOwnAnswer ==
    \A m \in Handlers :
        (msgs[m].cmd = "pokemon" /\ Has(m, "return")) =>
            /\ answer[m] = "404" => response[m] = NotFoundText(user_text(m))
            /\ answer[m] = "200" =>
                response[m] = FormatInfo(PokeData(RequestKey(user_text(m))))

(***************************************************************************)
(* C11: get_pokemon_info leaves on every path with the client's session    *)
(* closed - the step in which a lookup returns ends with the session it    *)
(* used and the referenced session closed - and whenever no lookup is in   *)
(* flight every session created so far is closed.                          *)
(***************************************************************************)
InFlight(m) == pc[m] \in {"poke_get", "poke_json"}

C11_NoOpenSessionAtRest ==
    (\A m \in Handlers : ~InFlight(m)) => closed = 1..nsessions

C11_ReturnClosesSession ==
    \A m \in Handlers :
        (InFlight(m) /\ pc'[m] = "poke_store") =>
            /\ self_session' # 0 /\ self_session' \in closed'
            /\ session[m] \in closed'

C11_SessionClosedOnEveryExit ==
    []C11_NoOpenSessionAtRest /\ [][C11_ReturnClosesSession]_vars

\* lookups have returned through a 404 and through an exception, none is in
\* flight, and the session they used is closed
C11_Witness ==
    /\ \E m, n \in Handlers :
        /\ Has(m, "status_404") /\ Has(m, "return")
        /\ Has(n, "exc") /\ Has(n, "return") /\ msgs[n].cmd = "pokemon"
    /\ \A m \in Handlers : ~InFlight(m)
    /\ nsessions > 0
    /\ closed = 1..nsessions

(***************************************************************************)
(* C12: handling the same /gpt or /pokemon command with the same non-empty *)
(* argument twice, from the same user, produces two persisted records with *)
(* different identities.                                                   *)
(***************************************************************************)
SameCommand(m, n) ==
    /\ m # n
    /\ msgs[m] = msgs[n]
    /\ IsQuery(m)
    /\ Argument(m) # <<>>

C12_TwoHandlingsTwoRecords ==
    \A m, n \in Handlers :
        (SameCommand(m, n) /\ Ended(m) /\ Ended(n)) =>
            /\ Len(rows[m]) = 1 /\ Len(rows[n]) = 1
            /\ rows[m][1] # rows[n][1]
            /\ table[rows[m][1]].id # table[rows[n][1]].id

(***************************************************************************)
(* C13: the table only grows at its end - every step leaves the rows       *)
(* already written as they are - and the source of every row is one of     *)
(* the two tags.                                                           *)
(***************************************************************************)
C13_SourceEnumerated ==
    \A i \in 1..Len(table) : table[i].api_source \in {"chatgpt", "pokeapi"}

C13_TableExtended ==
    /\ Len(table') >= Len(table)
    /\ SubSeq(table', 1, Len(table)) = table

C13_AppendOnlyTable ==
    []C13_SourceEnumerated /\ [][C13_TableExtended]_vars

\* the table holds a completion record and a lookup record
C13_Witness ==
    /\ Len(table) = 2
    /\ {table[1].api_source, table[2].api_source} = {"chatgpt", "pokeapi"}

(***************************************************************************)
(* C14: the step that handles /start or /help sends the static text and    *)
(* changes nothing else: the table, the lookup client's session state and  *)
(* every other handler stay as they are, and the new handler has made no   *)
(* call and written no row.                                                *)
(***************************************************************************)
Static(cmd) == IF cmd = "start" THEN WELCOME_TEXT ELSE HELP_TEXT

C14_StaticStep ==
    LET new == Len(msgs) + 1 IN
    (Len(msgs') = new /\ msgs'[new].cmd \in {"start", "help"}) =>
        /\ replies'[new] = <<Static(msgs'[new].cmd)>>
        /\ events'[new] = <<"reply">>
        /\ rows'[new] = <<>>
        /\ session'[new] = 0
        /\ pc'[new] = "done"
        /\ table' = table
        /\ self_session' = self_session
        /\ nsessions' = nsessions
        /\ closed' = closed
        /\ \A m \in Handlers :
            /\ pc'[m] = pc[m] /\ events'[m] = events[m]
            /\ replies'[m] = replies[m] /\ rows'[m] = rows[m]
            /\ response'[m] = response[m] /\ session'[m] = session[m]

C14_StaticCommandsFrame == [][C14_StaticStep]_vars

\* /start was answered while a lookup is in flight on an open session and
\* the table is empty
C14_Witness ==
    \E m, n \in Handlers :
        /\ m < n
        /\ InFlight(m) /\ session[m] \notin closed
        /\ msgs[n].cmd = "start"
        /\ replies[n] = <<WELCOME_TEXT>>

(***************************************************************************)
(* C19: the lookup client replaces its session reference only when the     *)
(* referenced session is absent or closed, so at most one session is open  *)
(* and an open session is the referenced one.                              *)
(***************************************************************************)
C19_OpenIsReferenced ==
    \A s \in 1..nsessions : s \notin closed => s = self_session

C19_ReplacedOnlyWhenClosed ==
    self_session' # self_session => (self_session = 0 \/ self_session \in closed)

C19_SingleOpenSession ==
    []C19_OpenIsReferenced /\ [][C19_ReplacedOnlyWhenClosed]_vars

\* after the first session was closed a later lookup created the second
\* one, which is open, referenced and in use
C19_Witness ==
    /\ nsessions = 2
    /\ closed = {1}
    /\ self_session = 2
    /\ \E m \in Handlers : InFlight(m) /\ session[m] = 2

(***************************************************************************)
(* C16: from process start to the start of the message loop or the failure *)
(* of the startup, no more than 5 storage attempts are made, the           *)
(* connection attempts at import and the init_db attempts of main counted  *)
(* together.                                                               *)
(***************************************************************************)
StorageAttempts == Len(connLog) + Len(initLog)

C16_FiveTriesInTotal == StorageAttempts <= ConnRetries

\* C16 as the code has it: each of the two loops has its own budget of 5,
\* so an execution makes at most 5 connection attempts at import and at
\* most 5 init_db attempts in main, 10 together
C16_FiveTriesPerLoop ==
    /\ Len(connLog) <= ConnRetries
    /\ Len(initLog) <= MainRetries
    /\ StorageAttempts <= ConnRetries + MainRetries
    /\ Len(initLog) > 0 => connLog[Len(connLog)] = "ok"

\* the connection succeeded at its last attempt and init_db at its last
\* attempt: the message loop starts after 10 attempts
C16_Witness ==
    /\ boot = "polling"
    /\ Len(connLog) = ConnRetries
    /\ Len(initLog) = MainRetries

(***************************************************************************)
(* C17: for every `retries` and every pattern of failures,                 *)
(* create_database_connection makes at most `retries` attempts, sleeps     *)
(* `delay` after each failed attempt except the last, and ends either by   *)
(* returning an engine whose attempt succeeded or by raising the error of  *)
(* the last attempt - never by returning without an engine.                *)
(***************************************************************************)
ConnEnded == boot # "import"

C17_ReturnsEngineOrRaises ==
    /\ Len(connLog) <= conn_retries
    /\ Len(connSleeps) = Cardinality({i \in 1..Len(connLog) :
                                        connLog[i] = "fail" /\ i < conn_retries})
    /\ \A i \in 1..Len(connSleeps) : connSleeps[i] = conn_delay
    /\ ConnEnded =>
        \/ /\ boot = "main" /\ engine
           /\ Len(connLog) > 0 /\ connLog[Len(connLog)] = "ok"
        \/ /\ boot = "failed" /\ ~engine
           /\ Len(connLog) = conn_retries /\ AllFailed(connLog)
           /\ Len(connLog) > 0

(***************************************************************************)
(* C15: the argument of a /gpt or /pokemon message is its text with the    *)
(* command token removed from the start only, trimmed at both ends, the    *)
(* rest verbatim: that is the text the handler works with, a non-empty     *)
(* argument is passed to the client, and it is what the record holds.      *)
(***************************************************************************)
C15_LeadingTokenOnly ==
    \A m \in Handlers :
        IsQuery(m) =>
            /\ user_text(m) = Argument(m)
            /\ Argument(m) # <<>> => Has(m, "call")
            /\ \A i \in 1..Len(rows[m]) : table[rows[m][i]].user_message = Argument(m)

(***************************************************************************)
(* C18: under any interleaving of /gpt and /pokemon handlers every row of  *)
(* the table belongs to exactly one message: it carries that message's     *)
(* sender and argument, the value the client returned to that message's    *)
(* handler and the source tag of that handler; and no message has more     *)
(* than one row.                                                           *)
(***************************************************************************)
Owners(i) == {m \in Handlers : \E k \in 1..Len(rows[m]) : rows[m][k] = i}

RecordOf(i, m) ==
    /\ IsQuery(m)
    /\ table[i].user_id = msgs[m].user
    /\ table[i].user_message = Argument(m)
    /\ table[i].bot_response = response[m]
    /\ table[i].api_source = (IF msgs[m].cmd = "gpt" THEN "chatgpt" ELSE "pokeapi")

C18_RecordOfOneCommand ==
    /\ \A i \in 1..Len(table) :
        /\ Cardinality(Owners(i)) = 1
        /\ \A m \in Owners(i) : RecordOf(i, m)
    /\ \A m \in Handlers : Len(rows[m]) <= 1

====
